---------------------------- MODULE Spec2Model ----------------------------
(***************************************************************************)
(* Model of src/belman.py: the BellmanFordApp of hamza-moussaif/bellmanford.*)
(*                                                                         *)
(* The state is the application object (self.graph, the two read-only      *)
(* dropdowns, the modal message box on screen) plus the local variables of *)
(* the handler that is running: read_graph_from_excel's data frame and     *)
(* graph under construction, and bellman_ford's distances, predecessors,   *)
(* paths and loop positions.  The handlers run one at a time (Tk's single  *)
(* event loop), so pc is "idle" between two events.                        *)
(***************************************************************************)
EXTENDS Integers, Sequences, FiniteSets, TLC

VARIABLES
    pc,            \* where the running handler stands ("idle": event loop)
    graph,         \* self.graph
    source,        \* self.source_dropdown's current text
    destination,   \* self.destination_dropdown's current text
    dialog,        \* the message box on screen (modal), or NoDialog
    df,            \* read_graph_from_excel: the rows of the data frame
    row,           \* read_graph_from_excel: rows iterated so far
    newgraph,      \* read_graph_from_excel: the local graph being built
    distances,     \* bellman_ford: distances
    predecessors,  \* bellman_ford: predecessors
    round,         \* bellman_ford: completed passes of `for _ in range(...)`
    todo,          \* bellman_ford: edges the running pass has not visited yet
    paths,         \* bellman_ford: paths
    nodesTodo,     \* bellman_ford: nodes `for node in graph.nodes` has left
    node,          \* bellman_ford: the node whose path is being built
    current,       \* bellman_ford: current
    path,          \* bellman_ford: path
    everStale      \* history: some predecessor's distance was lowered after
                   \* the predecessor link to it had been set (this call)

vars == <<pc, graph, source, destination, dialog, df, row, newgraph,
          distances, predecessors, round, todo, paths, nodesTodo, node,
          current, path, everStale>>

appVars == <<graph, source, destination>>
loadVars == <<df, row, newgraph>>
engineVars == <<distances, predecessors, round, todo, paths, nodesTodo,
                node, current, path, everStale>>

---------------------------------------------------------------------------
(* Values.                                                                 *)

\* A cell of the sheet is a Python string or a number; a node is whatever the
\* cell held.  Str is the conversion Tk applies to the dropdown's values:
\* Combobox.get() always returns a string, so the number 1 comes back as "1".
S(x) == [kind |-> "str", text |-> x]
N(x) == [kind |-> "int", text |-> x]
Str(n) == [kind |-> "str", text |-> n.text]

\* Python's None (predecessors) and the empty dropdown text "".
None == [kind |-> "none", text |-> ""]
Empty == S("")

\* float("inf"): larger than every finite sum; inf + w is inf, inf < inf is
\* false.  Weights are integers here, so sums are exact.
Inf == 1000

\* distances[u] + weight
Add(d, w) == IF d = Inf THEN Inf ELSE d + w

\* How many rows a sheet has at most.
MaxRows == 4

\* The rows (Source, Target, Weight) a sheet is made of.  They give: two rows
\* for the same ordered pair (B, C); the two-edge negative cycle B -> C -> B
\* (weights -1, -1) and the zero cycle B -> C -> B (weights 1, -1); the
\* negative self-loop at D; two routes from A to B (directly, and through D at
\* a lower cost); a zero-weight edge; and a node that is a number, not a
\* string.
RowPool ==
    { <<S("A"), S("B"), 1>>,
      <<S("B"), S("C"), 1>>, <<S("B"), S("C"), -1>>,
      <<S("C"), S("B"), -1>>,
      <<S("A"), S("D"), -1>>, <<S("D"), S("B"), -1>>,
      <<S("D"), S("D"), -1>>,
      <<S("A"), N("1"), 1>>, <<N("1"), S("B"), 0>> }

RECURSIVE Tables(_)
Tables(n) ==
    IF n = 0 THEN { <<>> }
    ELSE LET shorter == Tables(n - 1)
         IN  shorter \cup { Append(t, r) : t \in { s \in shorter : Len(s) = n - 1 },
                                           r \in RowPool }

---------------------------------------------------------------------------
(* The graph: networkx.DiGraph, as far as the program uses it.             *)

\* nx.DiGraph(): no nodes, no edges.  self.graph = None is modelled by the
\* same value: the only test of it, `not self.graph`, is true of both.
EmptyGraph == [nodes |-> {}, w |-> <<>>]

\* DiGraph.add_edge(u, v, weight=w): adds u and v to the nodes; the edge
\* (u, v) is a key of the adjacency dict, so a second add_edge of the same
\* ordered pair overwrites the weight and adds no edge.
add_edge(G, u, v, w) ==
    [nodes |-> G.nodes \cup {u, v},
     w |-> (<<u, v>> :> w) @@ G.w]

Edges(G) == DOMAIN G.w

NoDialog == [kind |-> "none", title |-> "", msg |-> ""]
Box(k, t, m) == [kind |-> k, title |-> t, msg |-> m]

NoFun == <<>>

Init ==
    /\ pc = "idle"
    /\ graph = EmptyGraph
    /\ source = Empty
    /\ destination = Empty
    /\ dialog = NoDialog
    /\ df = <<>>
    /\ row = 0
    /\ newgraph = EmptyGraph
    /\ distances = NoFun
    /\ predecessors = NoFun
    /\ round = 0
    /\ todo = {}
    /\ paths = NoFun
    /\ nodesTodo = {}
    /\ node = None
    /\ current = None
    /\ path = <<>>
    /\ everStale = FALSE

---------------------------------------------------------------------------
(* load_file / read_graph_from_excel.                                      *)

\* load_file, up to pd.read_excel returning a frame with the three columns.
\* A sheet is loaded while no graph is loaded yet: a later load replaces
\* self.graph and clears both dropdowns, which is the state a first load of
\* the same sheet leaves.
load_file ==
    /\ pc = "idle"
    /\ dialog = NoDialog
    /\ graph = EmptyGraph
    /\ \E t \in Tables(MaxRows) : df' = t
    /\ row' = 0
    /\ newgraph' = EmptyGraph
    /\ pc' = "read"
    /\ UNCHANGED <<appVars, dialog, engineVars>>

\* read_graph_from_excel raises ValueError when a required column is missing;
\* load_file reports it and keeps self.graph.
load_file_fails ==
    /\ pc = "idle"
    /\ dialog = NoDialog
    /\ graph = EmptyGraph
    /\ dialog' = Box("error", "Error", "Failed to load graph")
    /\ UNCHANGED <<pc, appVars, loadVars, engineVars>>

\* One iteration of `for _, row in df.iterrows()`.
read_row ==
    /\ pc = "read"
    /\ row < Len(df)
    /\ LET r == df[row + 1]
       IN  newgraph' = add_edge(newgraph, r[1], r[2], r[3])
    /\ row' = row + 1
    /\ UNCHANGED <<pc, appVars, dialog, df, engineVars>>

\* The loop is over: read_graph_from_excel returns the graph, load_file
\* stores it, fills and clears the dropdowns and reports success.
load_done ==
    /\ pc = "read"
    /\ row = Len(df)
    /\ graph' = newgraph
    /\ source' = Empty
    /\ destination' = Empty
    /\ dialog' = Box("info", "Success", "Graph loaded successfully!")
    /\ df' = <<>>
    /\ row' = 0
    /\ newgraph' = EmptyGraph
    /\ pc' = "idle"
    /\ UNCHANGED engineVars

\* The user closes the message box.
dismiss ==
    /\ pc = "idle"
    /\ dialog # NoDialog
    /\ dialog' = NoDialog
    /\ UNCHANGED <<pc, appVars, loadVars, engineVars>>

\* The values the dropdowns offer: list(self.graph.nodes), as Tk shows them.
DropdownValues == { Str(n) : n \in graph.nodes }

select_source ==
    /\ pc = "idle"
    /\ dialog = NoDialog
    /\ \E v \in DropdownValues : source' = v
    /\ UNCHANGED <<pc, graph, destination, dialog, loadVars, engineVars>>

select_destination ==
    /\ pc = "idle"
    /\ dialog = NoDialog
    /\ \E v \in DropdownValues : destination' = v
    /\ UNCHANGED <<pc, graph, source, dialog, loadVars, engineVars>>

---------------------------------------------------------------------------
(* bellman_ford.                                                           *)

\* The locals of bellman_ford before the call and after it has ended.
EngineIdle ==
    /\ distances' = NoFun
    /\ predecessors' = NoFun
    /\ round' = 0
    /\ todo' = {}
    /\ paths' = NoFun
    /\ nodesTodo' = {}
    /\ node' = None
    /\ current' = None
    /\ path' = <<>>
    /\ everStale' = FALSE

\* distances = {node: inf ...}; distances[source] = 0.  The assignment adds
\* the key when source is no node of the graph.
InitDistances(G, s) == (s :> 0) @@ [n \in G.nodes |-> Inf]

\* predecessors = {node: None ...}
InitPredecessors(G) == [n \in G.nodes |-> None]

\* range(len(graph.nodes) - 1).  (Variant: one pass fewer.)
RoundsMutOneFewer(G) == Cardinality(G.nodes) - 2
Rounds(G) == Cardinality(G.nodes) - 1

\* if distances[u] + weight < distances[v]      (the relaxation pass).
\* (Variant: <= in place of <.)
CanRelaxMutNonStrict(d, u, v, w) == Add(d[u], w) <= d[v]
CanRelax(d, u, v, w) == Add(d[u], w) < d[v]

\* if distances[u] + weight < distances[v]      (the negative-cycle pass).
\* (Variant: the pass reports nothing.)
StillImprovesMutNever(d, u, v, w) == FALSE
StillImproves(d, u, v, w) == Add(d[u], w) < d[v]

\* distances[v] = distances[u] + weight.  (Variant: distances[v] = weight.)
RelaxedMutEdgeWeightOnly(d, u, w) == w
Relaxed(d, u, w) == Add(d[u], w)

\* predecessors[v] = u.  (Variant: a predecessor once set is kept.)
SetPredecessorMutKeepFirst(p, u, v) == IF p[v] = None THEN [p EXCEPT ![v] = u] ELSE p
SetPredecessor(p, u, v) == [p EXCEPT ![v] = u]

\* path.insert(0, current).  (Variant: path.append(current).)
InsertFrontMutAppend(p, c) == Append(p, c)
InsertFront(p, c) == <<c>> \o p

\* if distances[node] != float("inf"): paths[node] = path.  (Variant: the
\* path is kept whatever the distance.)
KeepPathMutAlways(d, n) == TRUE
KeepPath(d, n) == d[n] # Inf

\* run_bellman_ford's three early returns.
run_no_graph ==
    /\ pc = "idle"
    /\ dialog = NoDialog
    /\ graph.nodes = {}
    /\ dialog' = Box("error", "Error", "No graph loaded!")
    /\ UNCHANGED <<pc, appVars, loadVars, engineVars>>

run_no_source ==
    /\ pc = "idle"
    /\ dialog = NoDialog
    /\ graph.nodes # {}
    /\ source = Empty
    /\ dialog' = Box("error", "Error", "Please select a source node!")
    /\ UNCHANGED <<pc, appVars, loadVars, engineVars>>

run_no_destination ==
    /\ pc = "idle"
    /\ dialog = NoDialog
    /\ graph.nodes # {}
    /\ source # Empty
    /\ destination = Empty
    /\ dialog' = Box("error", "Error", "Please select a destination node!")
    /\ UNCHANGED <<pc, appVars, loadVars, engineVars>>

\* run_bellman_ford calls bellman_ford(self.graph, source): the three
\* initialising statements, up to the first pass over the edges.
bellman_ford_call ==
    /\ pc = "idle"
    /\ dialog = NoDialog
    /\ graph.nodes # {}
    /\ source # Empty
    /\ destination # Empty
    /\ distances' = InitDistances(graph, source)
    /\ predecessors' = InitPredecessors(graph)
    /\ round' = 0
    /\ todo' = Edges(graph)
    /\ pc' = IF Rounds(graph) > 0 THEN "relax" ELSE "check"
    /\ UNCHANGED <<appVars, dialog, loadVars, paths, nodesTodo, node,
                   current, path, everStale>>

\* One iteration of the inner loop of the relaxation passes.  graph.edges
\* yields every edge once per pass, in an order the program does not choose:
\* any edge the pass has not visited may come next.
relax_edge ==
    /\ pc = "relax"
    /\ \E e \in todo :
        LET u == e[1]
            v == e[2]
            w == graph.w[e]
            hit == CanRelax(distances, u, v, w)
            last == todo = {e}
        IN  /\ distances' = IF hit THEN [distances EXCEPT ![v] = Relaxed(distances, u, w)]
                            ELSE distances
            /\ predecessors' = IF hit THEN SetPredecessor(predecessors, u, v)
                               ELSE predecessors
            /\ everStale' = (everStale \/ (hit /\ \E x \in graph.nodes :
                                                   x # v /\ predecessors[x] = v))
            /\ todo' = IF last THEN Edges(graph) ELSE todo \ {e}
            /\ round' = IF last THEN round + 1 ELSE round
            /\ pc' = IF last /\ round + 1 = Rounds(graph) THEN "check" ELSE "relax"
    /\ UNCHANGED <<appVars, dialog, loadVars, paths, nodesTodo, node, current, path>>

\* `for node in graph.nodes` moves on: with a node left, path = [] and
\* current = node; with none left, `return distances, paths`.  graph.nodes
\* yields every node once, in an order the program does not choose.
ForNode(rest) ==
    IF rest = {}
    THEN /\ pc' = "return"
         /\ UNCHANGED <<nodesTodo, node, current, path>>
    ELSE \E n \in rest :
            /\ node' = n
            /\ current' = n
            /\ path' = <<>>
            /\ nodesTodo' = rest \ {n}
            /\ pc' = "walk"

\* One iteration of the negative-cycle pass that finds nothing; after the
\* last one, paths = {} and the loop over the nodes starts.
check_edge ==
    /\ pc = "check"
    /\ \E e \in todo :
        /\ ~StillImproves(distances, e[1], e[2], graph.w[e])
        /\ todo' = todo \ {e}
        /\ IF todo = {e}
           THEN /\ paths' = NoFun
                /\ ForNode(graph.nodes)
           ELSE UNCHANGED <<pc, paths, nodesTodo, node, current, path>>
    /\ UNCHANGED <<appVars, dialog, loadVars, distances, predecessors, round,
                   everStale>>

\* The negative-cycle pass finds an improving edge: bellman_ford raises
\* ValueError, run_bellman_ford's except clause shows it.
check_edge_raise ==
    /\ pc = "check"
    /\ \E e \in todo : StillImproves(distances, e[1], e[2], graph.w[e])
    /\ dialog' = Box("error", "Error", "Graph contains a negative weight cycle!")
    /\ pc' = "idle"
    /\ EngineIdle
    /\ UNCHANGED <<appVars, loadVars>>

\* One iteration of `while current is not None`.
walk_step ==
    /\ pc = "walk"
    /\ current # None
    /\ path' = InsertFront(path, current)
    /\ current' = predecessors[current]
    /\ UNCHANGED <<pc, appVars, dialog, loadVars, distances, predecessors, round,
                   todo, paths, nodesTodo, node, everStale>>

\* The walk is over: the path is kept when the node's distance is finite,
\* and the loop over the nodes moves on.
walk_done ==
    /\ pc = "walk"
    /\ current = None
    /\ paths' = IF KeepPath(distances, node) THEN (node :> path) @@ paths ELSE paths
    /\ ForNode(nodesTodo)
    /\ UNCHANGED <<appVars, dialog, loadVars, distances, predecessors, round,
                   todo, everStale>>

---------------------------------------------------------------------------
(* run_bellman_ford, after bellman_ford has returned.                      *)

\* ' -> '.join(shortest_path) accepts strings only.
Joinable(p) == \A i \in 1..Len(p) : p[i].kind = "str"

\* destination in distances, paths[destination] exists, the path joins:
\* the result is shown (and drawn).
show_results ==
    /\ pc = "return"
    /\ destination \in DOMAIN distances
    /\ destination \in DOMAIN paths
    /\ Joinable(paths[destination])
    /\ dialog' = Box("info", "Results", "Shortest distance and path")
    /\ pc' = "idle"
    /\ EngineIdle
    /\ UNCHANGED <<appVars, loadVars>>

\* destination in distances, but paths[destination] raises KeyError, or the
\* join raises TypeError: the except clause shows the error box.
show_exception ==
    /\ pc = "return"
    /\ destination \in DOMAIN distances
    /\ IF destination \in DOMAIN paths THEN ~Joinable(paths[destination]) ELSE TRUE
    /\ dialog' = Box("error", "Error",
                     IF destination \notin DOMAIN paths THEN "KeyError" ELSE "TypeError")
    /\ pc' = "idle"
    /\ EngineIdle
    /\ UNCHANGED <<appVars, loadVars>>

\* destination not in distances: the "No Path" warning.
show_no_path ==
    /\ pc = "return"
    /\ destination \notin DOMAIN distances
    /\ dialog' = Box("warning", "No Path", "No path exists")
    /\ pc' = "idle"
    /\ EngineIdle
    /\ UNCHANGED <<appVars, loadVars>>

Next ==
    \/ load_file
    \/ load_file_fails
    \/ read_row
    \/ load_done
    \/ dismiss
    \/ select_source
    \/ select_destination
    \/ run_no_graph
    \/ run_no_source
    \/ run_no_destination
    \/ bellman_ford_call
    \/ relax_edge
    \/ check_edge
    \/ check_edge_raise
    \/ walk_step
    \/ walk_done
    \/ show_results
    \/ show_exception
    \/ show_no_path

Spec == Init /\ [][Next]_vars

\* The steps of bellman_ford and of the handler that called it.  Nothing else
\* runs while the handler does, so the handler is never starved of a step.
EngineStep ==
    \/ relax_edge
    \/ check_edge
    \/ check_edge_raise
    \/ walk_step
    \/ walk_done
    \/ show_results
    \/ show_exception
    \/ show_no_path

SpecFair == Spec /\ WF_vars(EngineStep)

---------------------------------------------------------------------------
(* Graph theory the claims are stated in, independent of bellman_ford.     *)

NegativeCycleMessage == "Graph contains a negative weight cycle!"

\* The nodes of G one edge away from a node of X.
Successors(G, X) == { e[2] : e \in { f \in Edges(G) : f[1] \in X } }

\* The nodes of G reachable from s by a directed path (s itself when it is a
\* node; none when it is not).
RECURSIVE Closure(_, _)
Closure(G, X) ==
    LET Y == X \cup Successors(G, X)
    IN  IF Y = X THEN X ELSE Closure(G, Y)

Reachable(G, s) == Closure(G, {s} \cap G.nodes)

\* The simple paths (no node twice) of G that extend p.
RECURSIVE Extensions(_, _)
Extensions(G, p) ==
    LET seen == { p[i] : i \in 1..Len(p) }
        more == { v \in G.nodes \ seen : <<p[Len(p)], v>> \in Edges(G) }
    IN  {p} \cup UNION { Extensions(G, Append(p, v)) : v \in more }

SimplePaths(G, s, n) == { p \in Extensions(G, <<s>>) : p[Len(p)] = n }

\* The total weight of the edges along p.
RECURSIVE PathWeight(_, _)
PathWeight(G, p) ==
    IF Len(p) < 2 THEN 0
    ELSE G.w[<<p[1], p[2]>>] + PathWeight(G, Tail(p))

IsPath(G, p) == \A i \in 1..(Len(p) - 1) : <<p[i], p[i + 1]>> \in Edges(G)

Minimum(X) == CHOOSE x \in X : \A y \in X : x <= y

MinDistance(G, s, n) == Minimum({ PathWeight(G, p) : p \in SimplePaths(G, s, n) })

\* A directed cycle of negative total weight through c.
NegativeCycleAt(G, c) ==
    \E p \in Extensions(G, <<c>>) :
        /\ <<p[Len(p)], c>> \in Edges(G)
        /\ PathWeight(G, p) + G.w[<<p[Len(p)], c>>] < 0

NegativeCycleReachable(G, s) == \E c \in Reachable(G, s) : NegativeCycleAt(G, c)

\* Following p from n reaches None within k steps.
RECURSIVE EndsWithin(_, _, _)
EndsWithin(p, n, k) ==
    IF n = None THEN TRUE
    ELSE IF k = 0 THEN FALSE
    ELSE EndsWithin(p, p[n], k - 1)

Acyclic(p) == \A n \in DOMAIN p : EndsWithin(p, n, Cardinality(DOMAIN p))

\* An edge the cycle pass would report, written out.
ImprovingEdge(G, d) ==
    \E e \in Edges(G) : d[e[1]] # Inf /\ d[e[1]] + G.w[e] < d[e[2]]

Returned == pc = "return"

---------------------------------------------------------------------------
(* The claims.                                                             *)

\* C1: when bellman_ford returns for a source that is a node of the graph and
\* no negative cycle is reachable from it, every reachable node's distance is
\* the minimum total weight of the directed paths from the source to it,
\* whatever order the passes visited the edges in.
C1_DistancesAreMinimal ==
    (Returned /\ source \in graph.nodes /\ ~NegativeCycleReachable(graph, source))
        => \A n \in Reachable(graph, source) :
               distances[n] = MinDistance(graph, source, n)

\* A result in which a node's shortest path is not its direct edge from the
\* source.
C1_Witness ==
    /\ Returned
    /\ source \in graph.nodes
    /\ \E n \in graph.nodes :
        /\ <<source, n>> \in Edges(graph)
        /\ distances[n] < graph.w[<<source, n>>]

\* C2: with a negative cycle reachable from the source, the pass after the
\* relaxation rounds finds an improving edge, and bellman_ford never gets to
\* building or returning paths.
C2_NegativeCycleRaises ==
    NegativeCycleReachable(graph, source)
        => /\ pc = "check" => ImprovingEdge(graph, distances)
           /\ pc \notin {"walk", "return"}

\* The error box of a call on a graph with a reachable negative cycle.
C2_Witness ==
    /\ pc = "idle"
    /\ dialog.msg = NegativeCycleMessage
    /\ NegativeCycleReachable(graph, source)
    /\ distances = NoFun
    /\ paths = NoFun

\* C3 (as claimed): bellman_ford never returns a result for a source that is
\* no node of the graph.
C3_InvalidSourceNeverReturns ==
    Returned => source \in graph.nodes

\* C4: without a negative cycle reachable from the source, the pass after the
\* relaxation rounds finds no improving edge and the negative-cycle error is
\* never raised, also when the graph has a negative cycle elsewhere.
C4_NoFalseNegativeCycle ==
    /\ (pc = "check" /\ ~NegativeCycleReachable(graph, source))
           => ~ImprovingEdge(graph, distances)
    /\ dialog.msg = NegativeCycleMessage => NegativeCycleReachable(graph, source)

\* A result for a graph that has a negative cycle the source does not reach.
C4_Witness ==
    /\ Returned
    /\ source \in graph.nodes
    /\ \E c \in graph.nodes : NegativeCycleAt(graph, c)
    /\ \E n \in graph.nodes : n # source /\ distances[n] # Inf

\* C5: in a result, the keys of paths are exactly the nodes reachable from the
\* source; distances has an entry for every node of the graph, infinite for
\* the nodes the source does not reach, and every node with a finite distance
\* has a path.
C5_PathsKeysAreReachable ==
    Returned
        => /\ DOMAIN paths = Reachable(graph, source)
           /\ graph.nodes \subseteq DOMAIN distances
           /\ \A n \in graph.nodes \ Reachable(graph, source) :
                  n \notin DOMAIN paths /\ distances[n] = Inf
           /\ \A n \in graph.nodes : distances[n] # Inf => n \in DOMAIN paths

\* A result with a node the source reaches and a node it does not.
C5_Witness ==
    /\ Returned
    /\ \E n \in graph.nodes : n # source /\ n \in DOMAIN paths
    /\ \E n \in graph.nodes : n \notin DOMAIN paths

\* C6: in a result, every path starts with the source, ends with its
\* destination and follows edges of the graph.
C6_PathsFollowEdges ==
    Returned
        => \A d \in DOMAIN paths :
               /\ Len(paths[d]) >= 1
               /\ paths[d][1] = source
               /\ paths[d][Len(paths[d])] = d
               /\ IsPath(graph, paths[d])

\* A result with a path of at least two edges.
C6_Witness ==
    /\ Returned
    /\ \E d \in DOMAIN paths : Len(paths[d]) >= 3

\* C7 (as claimed): when read_graph_from_excel has iterated every row, the
\* graph has one edge per row, carrying that row's weight.
C7_OneEdgePerRow ==
    (pc = "read" /\ row = Len(df))
        => /\ Cardinality(Edges(newgraph)) = Len(df)
           /\ \A i \in 1..Len(df) :
                  /\ <<df[i][1], df[i][2]>> \in Edges(newgraph)
                  /\ newgraph.w[<<df[i][1], df[i][2]>>] = df[i][3]

\* C8 (as claimed): when bellman_ford has returned and the destination is a
\* node of the graph that the source does not reach, the box run_bellman_ford
\* shows is the "No Path" warning.
C8_UnreachableIsWarning ==
    [][(Returned /\ destination \in graph.nodes
                 /\ destination \notin Reachable(graph, source))
           => (dialog'.kind = "warning" /\ dialog'.title = "No Path")]_vars

\* C9: in a result, the weights along each path add up to the destination's
\* distance, and every node's distance is its predecessor's distance plus the
\* weight of the edge between them.
C9_PathWeightIsDistance ==
    Returned
        => /\ \A d \in DOMAIN paths :
                  IsPath(graph, paths[d]) /\ PathWeight(graph, paths[d]) = distances[d]
           /\ \A v \in graph.nodes :
                  predecessors[v] # None
                      => /\ <<predecessors[v], v>> \in Edges(graph)
                         /\ distances[v] = distances[predecessors[v]]
                                               + graph.w[<<predecessors[v], v>>]

\* A result of a call in which a predecessor's distance was lowered after the
\* link to it was set.
C9_Witness ==
    /\ Returned
    /\ everStale
    /\ \E d \in DOMAIN paths : Len(paths[d]) >= 3

\* C10: once the negative-cycle pass is over the predecessor links form no
\* cycle and the source has none, every backward walk is no longer than the
\* number of nodes, and every call of bellman_ford ends: it raises or returns.
C10_PredecessorsAcyclic ==
    pc \in {"walk", "return"}
        => /\ Acyclic(predecessors)
           /\ source \in graph.nodes => predecessors[source] = None
           /\ Len(path) <= Cardinality(graph.nodes)

C10_Terminates ==
    /\ []C10_PredecessorsAcyclic
    /\ (pc \in {"relax", "check"}) ~> (pc \in {"return", "idle"})

\* A result for a graph with a cycle of total weight zero the source reaches.
C10_Witness ==
    /\ Returned
    /\ \E c \in Reachable(graph, source) :
           \E p \in Extensions(graph, <<c>>) :
               /\ <<p[Len(p)], c>> \in Edges(graph)
               /\ PathWeight(graph, p) + graph.w[<<p[Len(p)], c>>] = 0

===========================================================================
